---- MODULE Spec2Model ----
(***************************************************************************)
(* A model of soli/graph.py (class SOLI) and soli/models.py (OWLClass):    *)
(* the OWL parser, the graph indices, the lookups, the traversals, the     *)
(* prefix and label searches and refresh().                                *)
(*                                                                         *)
(* Strings are sequences of lexical tokens.  A token is either one         *)
(* character ("a", "b", "/") or one of the literal substrings the code     *)
(* tests for (the canonical base URL, the legacy prefixes, owl:Thing), so  *)
(* that startswith, slicing, count("/") and concatenation are computed on  *)
(* the string and not assumed.  Optional[T] is a sequence of length 0      *)
(* (None) or 1.  A dict is the sequence of its items in insertion order.   *)
(* List positions are Python's (0-based).                                  *)
(***************************************************************************)
EXTENDS Integers, Sequences, FiniteSets, TLC

\* ------------------------------------------------------------------------
\* Bounds of the model
\* ------------------------------------------------------------------------
\* top-level nodes in a document
MaxNodes == 2
\* successful or failed refresh() calls in one behaviour
MaxRefresh == 1
\* new versions the source publishes in one behaviour
MaxPublish == 1
\* largest max_depth argument tried (the smallest is -1)
MaxDepthArg == 2
\* frames the interpreter allows before RecursionError
RecursionLimit == 6
\* top-level nodes in a document of the label-search specification
MaxSearchNodes == 3
\* largest limit argument of search_by_label
MaxLimit == 2
\* largest similarity score (the smallest is 0)
MaxScore == 1
\* top-level nodes in a document of the triple specification
MaxTripleNodes == 1
\* entries the cache of _filter_triples takes in one behaviour
MaxMemo == 2
\* top-level nodes in a document of the traversal specification
MaxTreeNodes == 3
\* top-level nodes in a document of the specification without rapidfuzz
MaxDegradedNodes == 1
\* nodes of a document of the traversal specification
MaxWalkNodes == 3
\* nodes of a document of the IRI specification
MaxIriNodes == 1
\* tokens of an argument of normalize_iri
MaxIriLen == 3

\* ------------------------------------------------------------------------
\* Program constants
\* ------------------------------------------------------------------------
BASE == "https://soli.openlegalstandard.org/"
LEGACY == "http://lmss.sali.org/"
SOLI_PREFIX == "soli:"
LMSS_PREFIX == "lmss:"
THING == "http://www.w3.org/2002/07/owl#Thing"
OWL_THING == <<THING>>
MIN_PREFIX_LENGTH == 3
MAX_IRI_ATTEMPTS == 16
DEFAULT_SOURCE_TYPE == "github"
DEFAULT_HTTP_URL == <<>>

\* ------------------------------------------------------------------------
\* Python values
\* ------------------------------------------------------------------------
None == <<>>
Some(x) == <<x>>
IsNone(o) == o = <<>>
Val(o) == o[1]

\* str.count("/") of one token
SlashCount(tok) ==
    CASE tok = BASE -> 3
      [] tok = LEGACY -> 3
      [] tok = THING -> 5
      [] tok = "/" -> 1
      [] OTHER -> 0

RECURSIVE CountSlash(_)
CountSlash(s) ==
    IF s = <<>> THEN 0 ELSE SlashCount(Head(s)) + CountSlash(Tail(s))

\* s.startswith(p)
StartsWith(s, p) ==
    /\ Len(p) <= Len(s)
    /\ SubSeq(s, 1, Len(p)) = p

\* truthiness of an Optional[str]: None and "" are false
Truthy(o) == ~IsNone(o) /\ Val(o) # <<>>

\* dict (insertion ordered) as a sequence of [k, v] items
DictHas(d, k) == \E i \in 1..Len(d) : d[i].k = k
DictGet(d, k, default) ==
    IF DictHas(d, k)
    THEN d[CHOOSE i \in 1..Len(d) : d[i].k = k].v
    ELSE default
DictSet(d, k, v) ==
    IF DictHas(d, k)
    THEN [i \in 1..Len(d) |-> IF d[i].k = k THEN [k |-> k, v |-> v] ELSE d[i]]
    ELSE Append(d, [k |-> k, v |-> v])
DictKeys(d) == [i \in 1..Len(d) |-> d[i].k]

\* ------------------------------------------------------------------------
\* SOLI.normalize_iri
\* ------------------------------------------------------------------------
StripSoli(iri) == IF StartsWith(iri, <<SOLI_PREFIX>>) THEN Tail(iri) ELSE iri
StripLmss(iri) == IF StartsWith(iri, <<LMSS_PREFIX>>) THEN Tail(iri) ELSE iri
StripLegacy(iri) == IF StartsWith(iri, <<LEGACY>>) THEN Tail(iri) ELSE iri

normalize_iri(iri) ==
    IF StartsWith(iri, <<BASE>>) THEN iri
    ELSE LET stripped == StripLegacy(StripLmss(StripSoli(iri)))
         IN  IF CountSlash(stripped) = 0 THEN <<BASE>> \o stripped ELSE stripped

\* ------------------------------------------------------------------------
\* models.OWLClass
\* ------------------------------------------------------------------------
OWLClass(iri) ==
    [iri |-> iri, label |-> None, sub_class_of |-> <<>>, parent_class_of |-> <<>>,
     is_defined_by |-> None, see_also |-> <<>>, comment |-> None,
     deprecated |-> FALSE, preferred_label |-> None, alternative_labels |-> <<>>,
     translations |-> <<>>, hidden_label |-> None, definition |-> None,
     examples |-> <<>>, notes |-> <<>>, history_note |-> None,
     editorial_note |-> None, in_scheme |-> None, identifier |-> None,
     description |-> None, source |-> None, country |-> None]

\* a predicate that accepts a class without a label
is_valid_always(c) == TRUE

is_valid(c) == ~IsNone(c.label)

\* ------------------------------------------------------------------------
\* XML input: a node is [tag, about, children]; a child element is
\* [tag, text, resource, lang]; text and the attributes are Optional[str]
\* ------------------------------------------------------------------------
Elem(tag, text, resource, lang) ==
    [tag |-> tag, text |-> text, resource |-> resource, lang |-> lang]
TextElem(tag, text) == Elem(tag, Some(text), None, None)
RefElem(tag, resource) == Elem(tag, None, Some(resource), None)
Node(tag, about, children) == [tag |-> tag, about |-> about, children |-> children]

\* ------------------------------------------------------------------------
\* SOLI.parse_owl_class: the loop over node.getchildren()
\* st = [c |-> the OWLClass under construction, t |-> self.triples]
\* ------------------------------------------------------------------------
ParseChild(st, child) ==
    LET c == st.c
        tag == child.tag
        emit(o) == Append(st.t, <<c.iri, tag, o>>)
    IN  CASE tag = "rdfs:label" ->
               [c |-> [c EXCEPT !.label = child.text], t |-> emit(child.text)]
          [] tag = "rdfs:subClassOf" ->
               IF Truthy(child.resource)
               THEN [c |-> [c EXCEPT !.sub_class_of = Append(@, Val(child.resource))],
                     t |-> emit(child.resource)]
               ELSE st
          [] tag = "rdfs:isDefinedBy" ->
               IF Truthy(child.resource)
               THEN [c |-> [c EXCEPT !.is_defined_by = child.resource],
                     t |-> emit(child.resource)]
               ELSE st
          [] tag = "rdfs:seeAlso" ->
               IF Truthy(child.resource)
               THEN [c |-> [c EXCEPT !.see_also = Append(@, child.text)],
                     t |-> emit(child.resource)]
               ELSE st
          [] tag = "rdfs:comment" ->
               [c |-> [c EXCEPT !.comment = child.text], t |-> emit(child.text)]
          [] tag = "owl:deprecated" ->
               [c |-> [c EXCEPT !.deprecated = TRUE], t |-> emit(Some(<<"true">>))]
          [] tag = "skos:prefLabel" ->
               [c |-> [c EXCEPT !.preferred_label = child.text], t |-> st.t]
          [] tag = "skos:altLabel" ->
               [c |-> IF Truthy(child.lang)
                      THEN [c EXCEPT !.translations = DictSet(@, Val(child.lang), child.text)]
                      ELSE [c EXCEPT !.alternative_labels = Append(@, child.text)],
                t |-> emit(child.text)]
          [] tag = "skos:hiddenLabel" ->
               [c |-> [c EXCEPT !.hidden_label = child.text,
                                !.alternative_labels = Append(@, child.text)],
                t |-> emit(child.text)]
          [] tag = "skos:definition" ->
               [c |-> [c EXCEPT !.definition = child.text], t |-> emit(child.text)]
          [] tag = "skos:example" ->
               [c |-> [c EXCEPT !.examples = Append(@, child.text)], t |-> emit(child.text)]
          [] tag = "skos:note" ->
               [c |-> [c EXCEPT !.notes = Append(@, child.text)], t |-> emit(child.text)]
          [] tag = "skos:historyNote" ->
               [c |-> [c EXCEPT !.history_note = child.text], t |-> emit(child.text)]
          [] tag = "skos:editorialNote" ->
               [c |-> [c EXCEPT !.editorial_note = child.text], t |-> emit(child.text)]
          [] tag = "skos:inScheme" ->
               [c |-> [c EXCEPT !.in_scheme = child.text], t |-> emit(child.text)]
          [] tag = "dc:identifier" ->
               [c |-> [c EXCEPT !.identifier = child.text], t |-> emit(child.text)]
          [] tag = "dc:description" ->
               [c |-> [c EXCEPT !.description = child.text], t |-> emit(child.text)]
          [] tag = "dc:source" ->
               [c |-> [c EXCEPT !.source = child.text], t |-> emit(child.text)]
          [] tag = "v1:country" ->
               [c |-> [c EXCEPT !.country = child.text], t |-> emit(child.text)]
          [] OTHER -> st

\* a parse that stops after the first child of the node
ParseChildren_first(st, children) ==
    IF children = <<>> THEN st ELSE ParseChild(st, Head(children))

RECURSIVE ParseChildren(_, _)
ParseChildren(st, children) ==
    IF children = <<>> THEN st
    ELSE ParseChildren(ParseChild(st, Head(children)), Tail(children))

\* the index update of one label key: create the list or append to it
IndexAppend(d, key, index) ==
    IF ~DictHas(d, key)
    THEN DictSet(d, key, <<index>>)
    ELSE DictSet(d, key, Append(DictGet(d, key, <<>>), index))

RECURSIVE IndexAltLabels(_, _, _)
IndexAltLabels(d, alts, index) ==
    IF alts = <<>> THEN d
    ELSE IndexAltLabels(
             IF Truthy(Head(alts)) THEN IndexAppend(d, Val(Head(alts)), index) ELSE d,
             Tail(alts), index)

\* a parse that stores every class that has rdf:about
SkipClass_never(c) == FALSE

\* the validity test that decides whether the class is stored
SkipClass(c) == ~is_valid(c) /\ c.iri # OWL_THING

\* g is the SOLI instance: a record of its attributes
parse_owl_class(g, node) ==
    IF IsNone(node.about) THEN g
    ELSE
      LET st == ParseChildren([c |-> OWLClass(Val(node.about)), t |-> g.triples],
                              node.children)
          c == st.c
          g1 == [g EXCEPT !.triples = st.t]
          index == Len(g.classes)
      IN  IF SkipClass(c) THEN g1
          ELSE [g1 EXCEPT
                  !.classes = Append(@, c),
                  !.iri_to_index = DictSet(@, c.iri, index),
                  !.label_to_index =
                      IF Truthy(c.label) THEN IndexAppend(@, Val(c.label), index) ELSE @,
                  !.alt_label_to_index = IndexAltLabels(@, c.alternative_labels, index)]

RECURSIVE OntologyChildren(_, _)
OntologyChildren(g, children) ==
    IF children = <<>> THEN g
    ELSE LET child == Head(children)
             g1 == CASE child.tag = "dc:title" -> [g EXCEPT !.title = child.text]
                     [] child.tag = "dc:description" -> [g EXCEPT !.description = child.text]
                     [] OTHER -> g
         IN  OntologyChildren(g1, Tail(children))

parse_owl_ontology(g, node) == OntologyChildren(g, node.children)

parse_node(g, node) ==
    CASE node.tag = "owl:Class" -> parse_owl_class(g, node)
      [] node.tag = "owl:Ontology" -> parse_owl_ontology(g, node)
      [] OTHER -> g

RECURSIVE ParseNodes(_, _)
ParseNodes(g, nodes) ==
    IF nodes = <<>> THEN g ELSE ParseNodes(parse_node(g, Head(nodes)), Tail(nodes))

\* ------------------------------------------------------------------------
\* SOLI.__contains__, SOLI.__getitem__
\* ------------------------------------------------------------------------
\* a membership test on the string as given
contains_raw(g, item) == DictHas(g.iri_to_index, item)

contains(g, item) == DictHas(g.iri_to_index, normalize_iri(item))

\* a lookup that rejects negative positions instead of counting from the end
getitem_int_nowrap(g, item) ==
    IF item >= 0 /\ item < Len(g.classes) THEN Some(g.classes[item + 1]) ELSE None

\* list[item] for an int: IndexError is caught and None returned
getitem_int(g, item) ==
    LET n == Len(g.classes)
        pos == IF item < 0 THEN item + n ELSE item
    IN  IF pos >= 0 /\ pos < n THEN Some(g.classes[pos + 1]) ELSE None

getitem_str(g, item) ==
    IF DictHas(g.iri_to_index, normalize_iri(item))
    THEN Some(g.classes[DictGet(g.iri_to_index, normalize_iri(item), 0) + 1])
    ELSE None

\* ------------------------------------------------------------------------
\* SOLI.parse_owl: the edge pass, the frozen triples, the label trie
\* ------------------------------------------------------------------------
\* an edge pass that does not skip owl:Thing
SkipParent_never(parent_class) == FALSE

\* the test that keeps owl:Thing out of the derived edges
SkipParent(parent_class) == parent_class = OWL_THING

\* a reverse edge appended without the test that the parent is in the graph
AddReverseEdge_unchecked(g, parent_class, child_iri) ==
    [g EXCEPT
        !.classes[DictGet(g.iri_to_index, normalize_iri(parent_class), 0) + 1]
            .parent_class_of = Append(@, child_iri)]

\* the reverse edge: appended to the class that parent_class resolves to
AddReverseEdge(g, parent_class, child_iri) ==
    IF contains(g, parent_class)
    THEN [g EXCEPT
            !.classes[DictGet(g.iri_to_index, normalize_iri(parent_class), 0) + 1]
                .parent_class_of = Append(@, child_iri)]
    ELSE g

RECURSIVE BuildEdges(_, _, _)
BuildEdges(g, i, j) ==
    IF i > Len(g.classes) THEN g
    ELSE IF j > Len(g.classes[i].sub_class_of) THEN BuildEdges(g, i + 1, 1)
    ELSE LET parent_class == g.classes[i].sub_class_of[j]
             child_iri == g.classes[i].iri
         IN  IF SkipParent(parent_class) THEN BuildEdges(g, i, j + 1)
             ELSE LET g1 == [g EXCEPT !.class_edges =
                                 DictSet(@, parent_class,
                                         Append(DictGet(@, parent_class, <<>>), child_iri))]
                  IN  BuildEdges(AddReverseEdge(g1, parent_class, child_iri), i, j + 1)

SeqToSet(s) == {s[i] : i \in 1..Len(s)}

\* marisa_trie.Trie(all_labels): the set of the keys it holds
TrieKeys(g) ==
    {label \in SeqToSet(DictKeys(g.label_to_index) \o DictKeys(g.alt_label_to_index)) :
        Len(label) >= MIN_PREFIX_LENGTH}

\* buffer = [wellformed, nodes]; the caller handles a buffer lxml rejects
parse_owl(g, buffer, has_trie) ==
    LET g1 == ParseNodes(g, buffer.nodes)
        g2 == BuildEdges(g1, 1, 1)
        g3 == [g2 EXCEPT !.cached_triples = g2.triples]
    IN  IF has_trie THEN [g3 EXCEPT !.label_trie = Some(TrieKeys(g3))] ELSE g3

\* SOLI.__init__: the attributes before load_owl and parse_owl
NewInstance ==
    [title |-> None, description |-> None, classes |-> <<>>, iri_to_index |-> <<>>,
     label_to_index |-> <<>>, alt_label_to_index |-> <<>>, class_edges |-> <<>>,
     cached_triples |-> <<>>, label_trie |-> None, prefix_cache |-> <<>>,
     triples |-> <<>>]

\* a refresh that clears the triples and keeps the classes and the indices
Cleared_triples_only(g) == [g EXCEPT !.triples = <<>>, !.cached_triples = <<>>]

\* SOLI.refresh: the attributes it clears before it loads
Cleared(g) ==
    [g EXCEPT !.title = None, !.description = None, !.classes = <<>>,
              !.iri_to_index = <<>>, !.label_to_index = <<>>,
              !.alt_label_to_index = <<>>, !.class_edges = <<>>,
              !.triples = <<>>, !.cached_triples = <<>>]

\* ------------------------------------------------------------------------
\* SOLI.get_parents.  frames is what is left of the interpreter's recursion
\* limit: a call made with none left raises RecursionError.
\* The result is [raised |-> "" or the exception, val |-> the list].
\* ------------------------------------------------------------------------
Returned(v) == [raised |-> "", val |-> v]
Raised(e) == [raised |-> e, val |-> <<>>]

\* the test that ends the recursion
DepthLeft(max_depth) == max_depth # 0

RECURSIVE get_parents(_, _, _, _)
RECURSIVE ExtendParents(_, _, _, _, _)
get_parents(g, iri, max_depth, frames) ==
    IF frames = 0 THEN Raised("RecursionError")
    ELSE IF ~DictHas(g.iri_to_index, normalize_iri(iri)) THEN Returned(<<>>)
    ELSE LET owl_class == g.classes[DictGet(g.iri_to_index, normalize_iri(iri), 0) + 1]
         IN  IF DepthLeft(max_depth)
             THEN ExtendParents(g, <<owl_class>>, owl_class.sub_class_of,
                                max_depth - 1, frames - 1)
             ELSE Returned(<<owl_class>>)

\* a walk that follows the first parent only
ExtendParents_first(g, subgraph, parents, max_depth, frames) ==
    IF parents = <<>> THEN Returned(subgraph)
    ELSE LET r == get_parents(g, Head(parents), max_depth, frames)
         IN  IF r.raised # "" THEN r ELSE Returned(subgraph \o r.val)

\* for parent_class in owl_class.sub_class_of: subgraph.extend(get_parents(...))
ExtendParents(g, subgraph, parents, max_depth, frames) ==
    IF parents = <<>> THEN Returned(subgraph)
    ELSE LET r == get_parents(g, Head(parents), max_depth, frames)
         IN  IF r.raised # "" THEN r
             ELSE ExtendParents(g, subgraph \o r.val, Tail(parents), max_depth, frames)

\* ------------------------------------------------------------------------
\* SOLI.get_subgraph, SOLI.get_children
\* ------------------------------------------------------------------------
RECURSIVE get_subgraph(_, _, _, _)
RECURSIVE ExtendChildren(_, _, _, _, _)
get_subgraph(g, iri, max_depth, frames) ==
    IF frames = 0 THEN Raised("RecursionError")
    ELSE IF ~DictHas(g.iri_to_index, normalize_iri(iri)) THEN Returned(<<>>)
    ELSE LET owl_class == g.classes[DictGet(g.iri_to_index, normalize_iri(iri), 0) + 1]
         IN  IF DepthLeft(max_depth)
             THEN ExtendChildren(g, <<owl_class>>, owl_class.parent_class_of,
                                 max_depth - 1, frames - 1)
             ELSE Returned(<<owl_class>>)

\* for child_class in owl_class.parent_class_of: subgraph.extend(get_subgraph(...))
ExtendChildren(g, subgraph, children, max_depth, frames) ==
    IF children = <<>> THEN Returned(subgraph)
    ELSE LET r == get_subgraph(g, Head(children), max_depth, frames)
         IN  IF r.raised # "" THEN r
             ELSE ExtendChildren(g, subgraph \o r.val, Tail(children), max_depth, frames)

\* [child for child in subgraph if child != self[iri]]
get_children(g, iri, max_depth, frames) ==
    LET r == get_subgraph(g, iri, max_depth, frames)
        NotRoot(child) == Some(child) # getitem_str(g, iri)
    IN  IF r.raised # "" THEN r ELSE Returned(SelectSeq(r.val, NotRoot))

\* ------------------------------------------------------------------------
\* SOLI.search_by_prefix
\* ------------------------------------------------------------------------
\* sorted(keys, key=len): a stable insertion sort by length
RECURSIVE InsertByLen(_, _)
InsertByLen(sorted, x) ==
    IF sorted = <<>> THEN <<x>>
    ELSE IF Len(Head(sorted)) <= Len(x)
         THEN <<Head(sorted)>> \o InsertByLen(Tail(sorted), x)
         ELSE <<x>> \o sorted

\* a search that leaves the keys in the order the index gave them
SortByLen_none(keys) == keys

RECURSIVE SortByLen(_)
SortByLen(keys) ==
    IF keys = <<>> THEN <<>>
    ELSE InsertByLen(SortByLen(SubSeq(keys, 1, Len(keys) - 1)), keys[Len(keys)])

RECURSIVE Filter(_, _)
Filter(s, prefix) ==
    IF s = <<>> THEN <<>>
    ELSE IF StartsWith(Head(s), prefix)
         THEN <<Head(s)>> \o Filter(Tail(s), prefix)
         ELSE Filter(Tail(s), prefix)

\* the pure-python branch: the keys of both indices that start with prefix
LinearKeys(g, prefix) ==
    Filter(DictKeys(g.label_to_index) \o DictKeys(g.alt_label_to_index), prefix)

\* self._label_trie.keys(prefix): the matching keys, in an order the trie chooses
TrieMatches(g, prefix) == {k \in Val(g.label_trie) : StartsWith(k, prefix)}
Orders(S) == {o \in [1..Cardinality(S) -> S] : \A i, j \in DOMAIN o : o[i] = o[j] => i = j}

\* the (key, position) pairs in result order
RECURSIVE PrefixHits(_, _)
PrefixHits(g, keys) ==
    IF keys = <<>> THEN <<>>
    ELSE LET key == Head(keys)
             iri_list == DictGet(g.label_to_index, key, <<>>)
                         \o DictGet(g.alt_label_to_index, key, <<>>)
         IN  [i \in 1..Len(iri_list) |-> [key |-> key, index |-> iri_list[i]]]
             \o PrefixHits(g, Tail(keys))

\* the uncached computation, from the unsorted keys
PrefixSearch(g, unsorted) ==
    LET hits == PrefixHits(g, SortByLen(unsorted))
    IN  [classes |-> [i \in 1..Len(hits) |-> Val(getitem_int(g, hits[i].index))],
         matched |-> [i \in 1..Len(hits) |-> hits[i].key]]

\* the unsorted key lists the call can start from
PrefixKeyLists(g, prefix, has_trie) ==
    IF has_trie THEN Orders(TrieMatches(g, prefix)) ELSE {LinearKeys(g, prefix)}

\* ------------------------------------------------------------------------
\* SOLI.get_by_label, SOLI._basic_search, SOLI.search_by_label
\* ------------------------------------------------------------------------
Lookup(g, indices) == [i \in 1..Len(indices) |-> Val(getitem_int(g, indices[i]))]

get_by_label(g, label, include_alt_labels) ==
    Lookup(g, DictGet(g.label_to_index, label, <<>>))
    \o (IF include_alt_labels
        THEN Lookup(g, DictGet(g.alt_label_to_index, label, <<>>))
        ELSE <<>>)

\* rapidfuzz.process.extract: every choice scored, the best `limit` of them
\* by descending score, equal scores in the order of the choices
RECURSIVE InsertByScore(_, _)
InsertByScore(sorted, x) ==
    IF sorted = <<>> THEN <<x>>
    ELSE IF Head(sorted).score >= x.score
         THEN <<Head(sorted)>> \o InsertByScore(Tail(sorted), x)
         ELSE <<x>> \o sorted

RECURSIVE SortByScore(_)
SortByScore(xs) ==
    IF xs = <<>> THEN <<>>
    ELSE InsertByScore(SortByScore(SubSeq(xs, 1, Len(xs) - 1)), xs[Len(xs)])

Take(xs, n) == SubSeq(xs, 1, IF n < Len(xs) THEN n ELSE Len(xs))

Extract(scores, search_list, limit) ==
    Take(SortByScore([i \in 1..Len(search_list) |->
                         [s |-> search_list[i], score |-> scores[search_list[i]],
                          index |-> i - 1]]),
         limit)

\* sorted(..., key=lambda x: (-x[1], len(x[0])))
RECURSIVE InsertByScoreLen(_, _)
InsertByScoreLen(sorted, x) ==
    IF sorted = <<>> THEN <<x>>
    ELSE IF \/ Head(sorted).score > x.score
            \/ Head(sorted).score = x.score /\ Len(Head(sorted).s) <= Len(x.s)
         THEN <<Head(sorted)>> \o InsertByScoreLen(Tail(sorted), x)
         ELSE <<x>> \o sorted

\* a search that keeps the order rapidfuzz returned
SortByScoreLen_none(xs) == xs

RECURSIVE SortByScoreLen(_)
SortByScoreLen(xs) ==
    IF xs = <<>> THEN <<>>
    ELSE InsertByScoreLen(SortByScoreLen(SubSeq(xs, 1, Len(xs) - 1)), xs[Len(xs)])

basic_search(scores, search_list, limit) ==
    SortByScoreLen(Extract(scores, search_list, limit))

\* the inner loop `for label_class in label_classes`, with its break;
\* matched keeps, for every pair appended, the string that contributed it
RECURSIVE LabelClassLoop(_, _, _, _, _)
LabelClassLoop(acc, label_classes, search_label, score, limit) ==
    IF label_classes = <<>> THEN acc
    ELSE LET label_class == Head(label_classes)
             fresh == label_class.iri \notin acc.seen_classes
             acc1 == IF fresh
                     THEN [results |-> Append(acc.results, <<label_class, score>>),
                           seen_classes |-> acc.seen_classes \cup {label_class.iri},
                           matched |-> Append(acc.matched, search_label)]
                     ELSE acc
         IN  IF Len(acc1.results) >= limit THEN acc1
             ELSE LabelClassLoop(acc1, Tail(label_classes), search_label, score, limit)

\* the outer loop over the scored strings: nothing ends it early
RECURSIVE SearchLabelLoop(_, _, _, _, _)
SearchLabelLoop(g, acc, found, include_alt_labels, limit) ==
    IF found = <<>> THEN acc
    ELSE SearchLabelLoop(
             g,
             LabelClassLoop(acc,
                            get_by_label(g, Head(found).s, include_alt_labels),
                            Head(found).s, Head(found).score, limit),
             Tail(found), include_alt_labels, limit)

\* the body of search_by_label after the rapidfuzz test: the loop's final
\* [results, seen_classes, matched]; the call returns results
search_by_label(g, scores, include_alt_labels, limit) ==
    LET search_labels ==
            IF ~include_alt_labels THEN DictKeys(g.label_to_index)
            ELSE DictKeys(g.label_to_index) \o DictKeys(g.alt_label_to_index)
    IN  SearchLabelLoop(g, [results |-> <<>>, seen_classes |-> {}, matched |-> <<>>],
                        basic_search(scores, search_labels, limit),
                        include_alt_labels, limit)

\* ------------------------------------------------------------------------
\* SOLI.search_by_definition
\* ------------------------------------------------------------------------
\* the positions of the classes whose definition is not None
RECURSIVE DefinedFrom(_, _)
DefinedFrom(cs, i) ==
    IF i > Len(cs) THEN <<>>
    ELSE (IF ~IsNone(cs[i].definition) THEN <<i - 1>> ELSE <<>>) \o DefinedFrom(cs, i + 1)

\* the loop over the scored definitions, with its break
RECURSIVE DefinitionLoop(_, _, _, _, _)
DefinitionLoop(g, results, found, class_index, limit) ==
    IF found = <<>> THEN results
    ELSE LET search_index == Head(found).index
             results1 == Append(results,
                                <<g.classes[class_index[search_index + 1] + 1],
                                  Head(found).score>>)
         IN  IF Len(results1) >= limit THEN results1
             ELSE DefinitionLoop(g, results1, Tail(found), class_index, limit)

\* class_index, class_definitions = zip(*[...]): unpacking zip() of no
\* argument raises ValueError
search_by_definition(g, scores, limit) ==
    LET class_index == DefinedFrom(g.classes, 1)
        class_definitions ==
            [k \in 1..Len(class_index) |-> Val(g.classes[class_index[k] + 1].definition)]
    IN  IF class_index = <<>> THEN Raised("ValueError")
        ELSE Returned(DefinitionLoop(g, <<>>,
                                     basic_search(scores, class_definitions, limit),
                                     class_index, limit))

\* searches that go on without rapidfuzz
SearchUnavailable_never(has_fuzz) == FALSE

\* `if rapidfuzz is None`, the test both fuzzy searches start with
SearchUnavailable(has_fuzz) == ~has_fuzz

\* ------------------------------------------------------------------------
\* SOLI._filter_triples and its functools cache.  A triple is
\* <<subject, predicate, object>>.
\* ------------------------------------------------------------------------
\* the element of the triple that filter_by selects
TriplePosition(filter_by) ==
    CASE filter_by = "subject" -> 1
      [] filter_by = "predicate" -> 2
      [] filter_by = "object" -> 3

\* a query that returns the whole sequence
filter_triples_all(ts, value, filter_by) == ts

RECURSIVE filter_triples(_, _, _)
filter_triples(ts, value, filter_by) ==
    IF ts = <<>> THEN <<>>
    ELSE (IF Head(ts)[TriplePosition(filter_by)] = value THEN <<Head(ts)>> ELSE <<>>)
         \o filter_triples(Tail(ts), value, filter_by)

\* the arguments of the call: what the cache compares
CacheKey(ts, value, filter_by) == <<filter_by, value, ts>>
CacheHit(cache, key) == \E entry \in cache : entry.k = key
CacheGet(cache, key) == (CHOOSE entry \in cache : entry.k = key).v

\* SOLI._filter_triples: the three modes, ValueError for any other
FilterBy(ts, value, filter_by) ==
    IF filter_by \in {"predicate", "subject", "object"} THEN Returned(filter_triples(ts, value, filter_by))
    ELSE Raised("ValueError")

\* ------------------------------------------------------------------------
\* SOLI.load_cache, SOLI.save_cache, SOLI.load_owl.  files is the cache
\* directory: a dict from (source_type, cache_key) to the text of the file.
\* ------------------------------------------------------------------------
\* a test that accepts every source descriptor
ValidSource_any(source_type, http_url) == TRUE

\* the if/elif/else that derives cache_key: neither branch raises
ValidSource(source_type, http_url) ==
    \/ source_type = "github"
    \/ source_type = "http" /\ ~IsNone(http_url)

\* cache_root_path / source_type / blake2b(cache_key)
CacheFilePath(source_type, http_url) ==
    IF source_type = "github" THEN <<source_type, Some("alea-institute/soli/1.0.0")>>
    ELSE <<source_type, http_url>>

\* the text of the cache file, or None when there is no file
load_cache(files, source_type, http_url) ==
    IF ~ValidSource(source_type, http_url) THEN Raised("ValueError")
    ELSE LET path == CacheFilePath(source_type, http_url)
         IN  Returned(IF DictHas(files, path) THEN Some(DictGet(files, path, <<>>))
                      ELSE None)

\* [raised, files, writes]: the directory after the call, and the files written
save_cache(files, buffer, source_type, http_url) ==
    IF ~ValidSource(source_type, http_url)
    THEN [raised |-> "ValueError", files |-> files, writes |-> 0]
    ELSE [raised |-> "", writes |-> 1,
          files |-> DictSet(files, CacheFilePath(source_type, http_url), buffer)]

\* response is what the fetch yields: the text, or None when httpx raises.
\* [raised, val, files, fetches, writes]
load_owl(files, response, source_type, http_url, use_cache) ==
    LET cached == IF use_cache THEN load_cache(files, source_type, http_url)
                  ELSE Returned(None)
        Failed(error, fetches) ==
            [raised |-> error, val |-> <<>>, files |-> files,
             fetches |-> fetches, writes |-> 0]
        Finish(owl_buffer, fetches) ==
            LET saved == IF use_cache
                         THEN save_cache(files, owl_buffer, source_type, http_url)
                         ELSE [raised |-> "", files |-> files, writes |-> 0]
            IN  [raised |-> saved.raised, val |-> owl_buffer, files |-> saved.files,
                 fetches |-> fetches, writes |-> saved.writes]
    IN  IF cached.raised # "" THEN Failed(cached.raised, 0)
        ELSE IF ~IsNone(cached.val) THEN Finish(Val(cached.val), 0)
        ELSE IF ~(source_type = "github" \/ source_type = "http")
             THEN Failed("ValueError", 0)
        ELSE IF source_type = "http" /\ IsNone(http_url) THEN Failed("ValueError", 0)
        ELSE IF IsNone(response) THEN Failed("RuntimeError", 1)
        ELSE Finish(Val(response), 1)

\* ------------------------------------------------------------------------
\* SOLI.generate_iri.  draws[k] is the alphanumeric token the k-th uuid4
\* yields; the loop makes at most MAX_IRI_ATTEMPTS draws.
\* ------------------------------------------------------------------------
RECURSIVE GenerateLoop(_, _, _)
GenerateLoop(g, draws, attempt) ==
    IF attempt > MAX_IRI_ATTEMPTS THEN Raised("RuntimeError")
    ELSE LET base64_value == <<draws[attempt]>>
         IN  IF DictHas(g.iri_to_index, base64_value)
             THEN GenerateLoop(g, draws, attempt + 1)
             ELSE Returned(<<BASE>> \o base64_value)

generate_iri(g, draws) == GenerateLoop(g, draws, 1)

\* ------------------------------------------------------------------------
\* Inputs: IRIs, labels, nodes and documents
\* ------------------------------------------------------------------------
IRI_A == <<BASE, "a">>
IRI_B == <<BASE, "b">>
IRI_C == <<BASE, "c">>
\* a legacy form as rdf:about
IRI_S == <<SOLI_PREFIX, "a">>

AB == <<"a", "b">>
ABA == <<"a", "b", "a">>
ABB == <<"a", "b", "b">>
ABAB == <<"a", "b", "a", "b">>

Class(about, children) == Node("owl:Class", about, children)

\* the nodes of the documents whose versions the life-cycle specification
\* follows
VersionNodes ==
    { Class(Some(IRI_A), <<TextElem("rdfs:label", AB), RefElem("rdfs:subClassOf", OWL_THING)>>),
      Class(Some(IRI_A), <<TextElem("rdfs:label", ABA), RefElem("rdfs:subClassOf", IRI_B),
                           TextElem("skos:altLabel", AB)>>),
      Class(Some(IRI_B), <<TextElem("rdfs:label", ABB), RefElem("rdfs:subClassOf", IRI_S),
                           TextElem("skos:hiddenLabel", ABAB)>>),
      Class(Some(IRI_S), <<TextElem("rdfs:label", ABAB),
                           TextElem("skos:prefLabel", AB)>>),
      Node("owl:Ontology", None, <<TextElem("dc:title", AB), TextElem("dc:description", ABA)>>) }

\* the nodes of the documents the lookups and traversals are tried on
Nodes ==
    VersionNodes \cup
    { Class(Some(IRI_B), <<TextElem("rdfs:label", ABA), RefElem("rdfs:subClassOf", IRI_A),
                           TextElem("skos:definition", AB)>>),
      Class(Some(OWL_THING), <<>>),
      Class(Some(IRI_A), <<TextElem("rdfs:label", ABB),
                           RefElem("rdfs:subClassOf", <<LMSS_PREFIX, THING>>)>>),
      Class(Some(IRI_B), <<TextElem("skos:definition", AB),
                           RefElem("rdfs:subClassOf", IRI_A)>>),
      Class(None, <<TextElem("rdfs:label", AB)>>),
      Node("owl:ObjectProperty", Some(IRI_C), <<TextElem("rdfs:label", AB)>>) }

SeqsUpTo(S, n) == UNION {[1..k -> S] : k \in 0..n}

\* the text a fetch returns: lxml parses it into nodes, or rejects it
Buffer(nodes) == [wellformed |-> TRUE, nodes |-> nodes]
Documents == {Buffer(nodes) : nodes \in SeqsUpTo(Nodes, MaxNodes)}
Versions == {Buffer(nodes) : nodes \in SeqsUpTo(VersionNodes, MaxNodes)}

\* arguments of the calls
LookupKeys ==
    {IRI_A, <<"a">>, <<SOLI_PREFIX, "a">>, <<LMSS_PREFIX, "a">>, <<LEGACY, "a">>,
     IRI_B, IRI_C, OWL_THING}
Positions == (0 - MaxNodes - 1)..(MaxNodes + 1)
Depths == (0 - 1)..MaxDepthArg
Prefixes == {AB, ABA}

\* ------------------------------------------------------------------------
\* State
\* ------------------------------------------------------------------------
VARIABLES
    title, description, classes, iri_to_index, label_to_index, alt_label_to_index,
    class_edges, cached_triples, label_trie, prefix_cache, triples,
    marisa_trie,    \* module global: marisa_trie is not None
    rapidfuzz,      \* module global: rapidfuzz is not None
    filter_cache,   \* the functools cache of SOLI._filter_triples
    parsed,         \* the text of the most recent parse that completed
    cache_files,    \* the cache directory: (source_type, cache_key) -> text
    remote,         \* the text the source serves now
    ret,            \* the last call: [op, arg, raised, val]
    phase,          \* "constructed", "refreshed" or "refresh_failed"
    refreshes, publishes

attrs == <<title, description, classes, iri_to_index, label_to_index, alt_label_to_index,
           class_edges, cached_triples, label_trie, prefix_cache, triples>>
vars == <<attrs, marisa_trie, rapidfuzz, filter_cache, parsed, cache_files, remote, ret, phase,
          refreshes, publishes>>

\* the instance as one record
self ==
    [title |-> title, description |-> description, classes |-> classes,
     iri_to_index |-> iri_to_index, label_to_index |-> label_to_index,
     alt_label_to_index |-> alt_label_to_index, class_edges |-> class_edges,
     cached_triples |-> cached_triples, label_trie |-> label_trie,
     prefix_cache |-> prefix_cache, triples |-> triples]

Install(g) ==
    /\ title' = g.title
    /\ description' = g.description
    /\ classes' = g.classes
    /\ iri_to_index' = g.iri_to_index
    /\ label_to_index' = g.label_to_index
    /\ alt_label_to_index' = g.alt_label_to_index
    /\ class_edges' = g.class_edges
    /\ cached_triples' = g.cached_triples
    /\ label_trie' = g.label_trie
    /\ prefix_cache' = g.prefix_cache
    /\ triples' = g.triples

Call(op, arg, r) == [op |-> op, arg |-> arg, raised |-> r.raised, val |-> r.val]

\* SOLI.__init__ on the text load_owl returned, with the cache directory it
\* left and the given globals
LoadedWith(buffer, served, has_trie, has_fuzz, files) ==
    LET g == parse_owl(NewInstance, buffer, has_trie)
    IN  /\ title = g.title
        /\ description = g.description
        /\ classes = g.classes
        /\ iri_to_index = g.iri_to_index
        /\ label_to_index = g.label_to_index
        /\ alt_label_to_index = g.alt_label_to_index
        /\ class_edges = g.class_edges
        /\ cached_triples = g.cached_triples
        /\ label_trie = g.label_trie
        /\ prefix_cache = g.prefix_cache
        /\ triples = g.triples
        /\ marisa_trie = has_trie
        /\ rapidfuzz = has_fuzz
        /\ filter_cache = {}
        /\ parsed = buffer
        /\ cache_files = files
        /\ remote = served
        /\ ret = Call("init", <<>>, Returned(<<>>))
        /\ phase = "constructed"
        /\ refreshes = 0
        /\ publishes = 0

\* SOLI.__init__ with use_cache=True (the default): the cache file holds the
\* text that was loaded, which can be older than the text the source serves
Loaded(buffer, served, has_trie, has_fuzz) ==
    LoadedWith(buffer, served, has_trie, has_fuzz,
               save_cache(<<>>, buffer, DEFAULT_SOURCE_TYPE, DEFAULT_HTTP_URL).files)

\* SOLI.__init__ on the text the source serves
Constructed(buffer, has_trie, has_fuzz) == Loaded(buffer, buffer, has_trie, has_fuzz)

Init ==
    \E buffer \in Versions, has_trie \in BOOLEAN :
        Constructed(buffer, has_trie, TRUE)

\* ------------------------------------------------------------------------
\* The source publishes a new version of the document
\* ------------------------------------------------------------------------
Publish ==
    /\ publishes < MaxPublish
    /\ publishes' = publishes + 1
    /\ \/ \E n \in VersionNodes :
            /\ Len(remote.nodes) < MaxNodes
            /\ remote' = [remote EXCEPT !.nodes = Append(@, n)]
       \/ /\ remote.nodes # <<>>
          /\ remote' = [remote EXCEPT !.nodes = Tail(@)]
       \/ /\ remote.wellformed
          /\ remote' = [remote EXCEPT !.wellformed = FALSE]
    /\ UNCHANGED <<attrs, marisa_trie, rapidfuzz, filter_cache, parsed, cache_files, ret,
                   phase, refreshes>>

\* ------------------------------------------------------------------------
\* SOLI.refresh: clear, load_owl(use_cache=False), parse_owl
\* ------------------------------------------------------------------------
Refresh ==
    /\ refreshes < MaxRefresh
    /\ refreshes' = refreshes + 1
    /\ \E fetched \in BOOLEAN :
         LET cleared == Cleared(self)
             loaded == load_owl(cache_files, IF fetched THEN Some(remote) ELSE None,
                                DEFAULT_SOURCE_TYPE, DEFAULT_HTTP_URL, FALSE)
             error == IF loaded.raised # "" THEN loaded.raised
                      ELSE IF ~remote.wellformed THEN "XMLSyntaxError"
                      ELSE ""
         IN  /\ cache_files' = loaded.files
             /\ Install(IF error = "" THEN parse_owl(cleared, remote, marisa_trie)
                        ELSE cleared)
             /\ ret' = Call("refresh", <<>>, IF error = "" THEN Returned(<<>>) ELSE Raised(error))
             /\ phase' = IF error = "" THEN "refreshed" ELSE "refresh_failed"
             /\ parsed' = IF error = "" THEN remote ELSE parsed
    /\ UNCHANGED <<marisa_trie, rapidfuzz, filter_cache, remote, publishes>>

\* ------------------------------------------------------------------------
\* The read calls
\* ------------------------------------------------------------------------
Reads == <<title, description, classes, iri_to_index, label_to_index, alt_label_to_index,
           class_edges, cached_triples, label_trie, triples,
           marisa_trie, rapidfuzz, parsed, cache_files, remote, phase, refreshes,
           publishes>>

GetItemStr ==
    \E item \in LookupKeys :
        /\ ret' = Call("getitem_str", item, Returned(getitem_str(self, item)))
        /\ UNCHANGED <<Reads, prefix_cache, filter_cache>>

GetItemInt ==
    \E item \in Positions :
        /\ ret' = Call("getitem_int", item, Returned(getitem_int(self, item)))
        /\ UNCHANGED <<Reads, prefix_cache, filter_cache>>

GetParents ==
    \E iri \in LookupKeys, max_depth \in Depths :
        /\ ret' = Call("get_parents", <<iri, max_depth>>,
                       get_parents(self, iri, max_depth, RecursionLimit))
        /\ UNCHANGED <<Reads, prefix_cache, filter_cache>>

SearchByPrefix ==
    \E prefix \in Prefixes :
        IF DictHas(prefix_cache, prefix)
        THEN /\ ret' = [op |-> "search_by_prefix", arg |-> prefix, raised |-> "",
                        val |-> DictGet(prefix_cache, prefix, <<>>),
                        hit |-> TRUE, matched |-> <<>>]
             /\ UNCHANGED <<Reads, prefix_cache, filter_cache>>
        ELSE \E unsorted \in PrefixKeyLists(self, prefix, marisa_trie) :
               LET r == PrefixSearch(self, unsorted)
               IN  /\ prefix_cache' = DictSet(prefix_cache, prefix, r.classes)
                   /\ ret' = [op |-> "search_by_prefix", arg |-> prefix, raised |-> "",
                              val |-> r.classes, hit |-> FALSE, matched |-> r.matched]
                   /\ UNCHANGED <<Reads, filter_cache>>

\* the life of one instance: the source changes, refresh(), prefix searches
Next ==
    \/ Publish
    \/ Refresh
    \/ SearchByPrefix

Spec == Init /\ [][Next]_vars

\* ------------------------------------------------------------------------
\* Triple queries, refresh() and appends to the public triples list, on an
\* instance loaded from one text while the source serves a text that can
\* be another one
\* ------------------------------------------------------------------------
TripleNodes ==
    { Class(Some(IRI_A), <<TextElem("rdfs:label", AB), RefElem("rdfs:subClassOf", OWL_THING),
                           Elem("rdfs:subClassOf", None, None, None),
                           TextElem("skos:prefLabel", AB),
                           TextElem("owl:disjointWith", AB)>>),
      Class(Some(IRI_C), <<TextElem("skos:definition", AB),
                           Elem("rdfs:seeAlso", Some(AB), Some(IRI_A), None)>>) }

TripleDocuments == {Buffer(nodes) : nodes \in SeqsUpTo(TripleNodes, MaxTripleNodes)}
Subjects == {IRI_A}
Predicates == {"rdfs:label"}
Objects == {Some(AB)}

InitTriples ==
    \E buffer \in TripleDocuments, served \in TripleDocuments :
        Loaded(buffer, served, TRUE, TRUE)

\* self._filter_triples(self._cached_triples, value, filter_by=...)
TripleQuery(op, value, filter_by) ==
    LET key == CacheKey(cached_triples, value, filter_by)
        hit == CacheHit(filter_cache, key)
        result == IF hit THEN CacheGet(filter_cache, key)
                  ELSE filter_triples(cached_triples, value, filter_by)
    IN  /\ hit \/ Cardinality(filter_cache) < MaxMemo
        /\ ret' = Call(op, value, Returned(result))
        /\ filter_cache' = IF hit THEN filter_cache
                           ELSE filter_cache \cup {[k |-> key, v |-> result]}
        /\ UNCHANGED <<Reads, prefix_cache>>

GetTriplesBySubject ==
    \E subject \in Subjects : TripleQuery("get_triples_by_subject", subject, "subject")

GetTriplesByPredicate ==
    \E predicate \in Predicates :
        TripleQuery("get_triples_by_predicate", predicate, "predicate")

GetTriplesByObject ==
    \E obj \in Objects : TripleQuery("get_triples_by_object", obj, "object")

\* soli.triples.append(...): the public list is mutable
MutateTriples ==
    /\ triples = cached_triples
    /\ triples' = Append(triples, <<IRI_C, "rdfs:label", Some(AB)>>)
    /\ ret' = Call("triples.append", <<>>, Returned(<<>>))
    /\ UNCHANGED <<title, description, classes, iri_to_index, label_to_index,
                   alt_label_to_index, class_edges, cached_triples, label_trie,
                   prefix_cache, marisa_trie, rapidfuzz, filter_cache, parsed,
                   cache_files, remote,
                   phase, refreshes, publishes>>

NextTriples ==
    \/ Refresh
    \/ MutateTriples
    \/ GetTriplesBySubject
    \/ GetTriplesByPredicate
    \/ GetTriplesByObject

SpecTriples == InitTriples /\ [][NextTriples]_vars

\* ------------------------------------------------------------------------
\* get_children on the snapshot of any document of a small hierarchy
\* ------------------------------------------------------------------------
TreeNodes ==
    { Class(Some(IRI_A), <<TextElem("rdfs:label", AB)>>),
      Class(Some(IRI_B), <<TextElem("rdfs:label", ABA), RefElem("rdfs:subClassOf", IRI_A)>>),
      Class(Some(IRI_B), <<TextElem("rdfs:label", ABB)>>),
      Class(Some(<<SOLI_PREFIX, "b">>), <<TextElem("rdfs:label", ABAB),
                                         RefElem("rdfs:subClassOf", IRI_A)>>),
      Class(Some(IRI_A), <<TextElem("rdfs:label", AB), RefElem("rdfs:subClassOf", IRI_B)>>) }

TreeDocuments == {Buffer(nodes) : nodes \in SeqsUpTo(TreeNodes, MaxTreeNodes)}

InitTree == \E buffer \in TreeDocuments : Constructed(buffer, TRUE, TRUE)

GetChildren ==
    \E iri \in LookupKeys, max_depth \in Depths :
        /\ ret' = Call("get_children", <<iri, max_depth>>,
                       get_children(self, iri, max_depth, RecursionLimit))
        /\ UNCHANGED <<Reads, prefix_cache, filter_cache>>

NextTree == GetChildren

SpecTree == InitTree /\ [][NextTree]_vars

\* lookups and traversals on the snapshot of any document
InitQuery == \E buffer \in Documents : Constructed(buffer, TRUE, TRUE)

NextQuery ==
    \/ GetItemStr
    \/ GetItemInt
    \/ GetParents

SpecQuery == InitQuery /\ [][NextQuery]_vars

\* ------------------------------------------------------------------------
\* Label search on the snapshot of any document of labelled classes.  The
\* scorer (rapidfuzz WRatio of the query and a string) is any function from
\* the strings to the scores.
\* ------------------------------------------------------------------------
SearchNodes ==
    { Class(Some(IRI_A), <<TextElem("rdfs:label", AB), TextElem("skos:definition", ABA)>>),
      Class(Some(IRI_B), <<TextElem("rdfs:label", AB), TextElem("skos:altLabel", ABA)>>),
      Class(Some(IRI_C), <<TextElem("rdfs:label", ABA), TextElem("skos:altLabel", AB),
                           TextElem("skos:definition", AB)>>),
      Class(Some(IRI_B), <<TextElem("rdfs:label", ABB), TextElem("skos:hiddenLabel", AB)>>) }

SearchDocuments == {Buffer(nodes) : nodes \in SeqsUpTo(SearchNodes, MaxSearchNodes)}
SearchStrings == {AB, ABA, ABB}
Scorers == [SearchStrings -> 0..MaxScore]

InitSearch ==
    \E buffer \in SearchDocuments, has_fuzz \in BOOLEAN :
        Constructed(buffer, TRUE, has_fuzz)

SearchByLabel ==
    \E scores \in Scorers, include_alt_labels \in BOOLEAN, limit \in 1..MaxLimit :
        /\ ret' = IF SearchUnavailable(rapidfuzz)
                  THEN [op |-> "search_by_label", arg |-> <<include_alt_labels, limit>>,
                        raised |-> "RuntimeError", val |-> <<>>, matched |-> <<>>]
                  ELSE LET r == search_by_label(self, scores, include_alt_labels, limit)
                       IN  [op |-> "search_by_label", arg |-> <<include_alt_labels, limit>>,
                            raised |-> "", val |-> r.results, matched |-> r.matched]
        /\ UNCHANGED <<Reads, prefix_cache, filter_cache>>

SearchByDefinition ==
    \E scores \in Scorers, limit \in 1..MaxLimit :
        /\ ret' = Call("search_by_definition", <<limit>>,
                       IF SearchUnavailable(rapidfuzz) THEN Raised("RuntimeError")
                       ELSE search_by_definition(self, scores, limit))
        /\ UNCHANGED <<Reads, prefix_cache, filter_cache>>

NextSearch ==
    \/ SearchByLabel
    \/ SearchByDefinition

SpecSearch == InitSearch /\ [][NextSearch]_vars

\* ------------------------------------------------------------------------
\* Every kind of call on an instance of a runtime with or without rapidfuzz
\* ------------------------------------------------------------------------
DegradedNodes ==
    { Class(Some(IRI_A), <<TextElem("rdfs:label", ABA), TextElem("skos:definition", AB)>>),
      Class(Some(IRI_C), <<TextElem("rdfs:label", ABB), TextElem("skos:altLabel", ABA)>>),
      Class(Some(IRI_B), <<TextElem("rdfs:label", ABA), RefElem("rdfs:subClassOf", IRI_A)>>) }

DegradedDocuments == {Buffer(nodes) : nodes \in SeqsUpTo(DegradedNodes, MaxDegradedNodes)}

InitDegraded ==
    \E buffer \in DegradedDocuments, has_fuzz \in BOOLEAN :
        Constructed(buffer, TRUE, has_fuzz)

NextDegraded ==
    \/ SearchByLabel
    \/ SearchByDefinition
    \/ SearchByPrefix
    \/ GetItemStr
    \/ GetChildren
    \/ GetTriplesByPredicate

SpecDegraded == InitDegraded /\ [][NextDegraded]_vars

\* ------------------------------------------------------------------------
\* Loading: the cache directory, the fetch and the modes of the static
\* loaders and of _filter_triples, around one instance that is refreshed
\* ------------------------------------------------------------------------
\* two versions of one document
LoadDocuments ==
    { Buffer(<<Class(Some(IRI_A), <<TextElem("rdfs:label", AB)>>)>>),
      Buffer(<<Class(Some(IRI_A), <<TextElem("rdfs:label", AB)>>),
               Class(Some(IRI_B), <<TextElem("rdfs:label", ABA)>>)>>) }

SourceTypes == {"github", "http", "bad"}
HttpUrls == {None, Some("https://example.org/soli.owl")}
FilterBys == {"predicate", "bad"}

\* SOLI(use_cache=...) with the cache directory empty or holding an older text
InitLoad ==
    \E served \in LoadDocuments, use_cache \in BOOLEAN,
       files \in {<<>>} \cup
                 {save_cache(<<>>, old, DEFAULT_SOURCE_TYPE, DEFAULT_HTTP_URL).files :
                     old \in LoadDocuments} :
        LET loaded == load_owl(files, Some(served), DEFAULT_SOURCE_TYPE,
                               DEFAULT_HTTP_URL, use_cache)
        IN  LoadedWith(loaded.val, served, TRUE, TRUE, loaded.files)

LoadCache ==
    \E source_type \in SourceTypes, http_url \in HttpUrls :
        /\ ret' = Call("load_cache", [source_type |-> source_type, http_url |-> http_url],
                       load_cache(cache_files, source_type, http_url))
        /\ UNCHANGED <<Reads, prefix_cache, filter_cache>>

SaveCache ==
    \E source_type \in SourceTypes, http_url \in HttpUrls :
        LET saved == save_cache(cache_files, parsed, source_type, http_url)
        IN  /\ cache_files' = saved.files
            /\ ret' = [op |-> "save_cache",
                       arg |-> [source_type |-> source_type, http_url |-> http_url],
                       raised |-> saved.raised, val |-> <<>>, fetches |-> 0,
                       writes |-> saved.writes]
            /\ UNCHANGED <<attrs, marisa_trie, rapidfuzz, filter_cache, parsed, remote,
                           phase, refreshes, publishes>>

LoadOwl ==
    \E source_type \in SourceTypes, http_url \in HttpUrls, use_cache \in BOOLEAN,
       fetched \in BOOLEAN :
        LET loaded == load_owl(cache_files, IF fetched THEN Some(remote) ELSE None,
                               source_type, http_url, use_cache)
        IN  /\ cache_files' = loaded.files
            /\ ret' = [op |-> "load_owl",
                       arg |-> [source_type |-> source_type, http_url |-> http_url,
                                use_cache |-> use_cache],
                       raised |-> loaded.raised, val |-> loaded.val,
                       fetches |-> loaded.fetches, writes |-> loaded.writes]
            /\ UNCHANGED <<attrs, marisa_trie, rapidfuzz, filter_cache, parsed, remote,
                           phase, refreshes, publishes>>

\* SOLI._filter_triples(self._cached_triples, value, filter_by): a call
\* that raises is not cached
FilterTriples ==
    \E value \in Predicates, filter_by \in FilterBys :
        LET key == CacheKey(cached_triples, value, filter_by)
            hit == CacheHit(filter_cache, key)
            result == IF hit THEN Returned(CacheGet(filter_cache, key))
                      ELSE FilterBy(cached_triples, value, filter_by)
        IN  /\ hit \/ Cardinality(filter_cache) < MaxMemo
            /\ ret' = Call("_filter_triples", <<value, filter_by>>, result)
            /\ filter_cache' = IF hit \/ result.raised # "" THEN filter_cache
                               ELSE filter_cache \cup {[k |-> key, v |-> result.val]}
            /\ UNCHANGED <<Reads, prefix_cache>>

NextLoad ==
    \/ Refresh
    \/ LoadCache
    \/ SaveCache
    \/ LoadOwl
    \/ FilterTriples

SpecLoad == InitLoad /\ [][NextLoad]_vars

\* ------------------------------------------------------------------------
\* Membership, lookups and the three traversals on hierarchies with a
\* diamond, a cycle and parents that are not in the graph
\* ------------------------------------------------------------------------
WalkNodes ==
    { Class(Some(IRI_A), <<TextElem("rdfs:label", AB), RefElem("rdfs:subClassOf", IRI_C)>>),
      Class(Some(IRI_B), <<TextElem("rdfs:label", ABA), RefElem("rdfs:subClassOf", IRI_A)>>),
      Class(Some(IRI_C), <<TextElem("rdfs:label", ABB), RefElem("rdfs:subClassOf", IRI_B),
                           RefElem("rdfs:subClassOf", <<LMSS_PREFIX, "a">>)>>) }

WalkDocuments == {Buffer(nodes) : nodes \in SeqsUpTo(WalkNodes, MaxWalkNodes)}

InitWalk == \E buffer \in WalkDocuments : Constructed(buffer, TRUE, TRUE)

Contains ==
    \E item \in LookupKeys :
        /\ ret' = Call("contains", item, Returned(contains(self, item)))
        /\ UNCHANGED <<Reads, prefix_cache, filter_cache>>

GetSubgraph ==
    \E iri \in LookupKeys, max_depth \in Depths :
        /\ ret' = Call("get_subgraph", <<iri, max_depth>>,
                       get_subgraph(self, iri, max_depth, RecursionLimit))
        /\ UNCHANGED <<Reads, prefix_cache, filter_cache>>

NextWalk ==
    \/ Contains
    \/ GetItemStr
    \/ GetParents
    \/ GetSubgraph
    \/ GetChildren

SpecWalk == InitWalk /\ [][NextWalk]_vars

\* ------------------------------------------------------------------------
\* IRIs: normalize_iri on strings of prefixes, tokens and separators, and
\* generate_iri on graphs that hold the tokens it can draw
\* ------------------------------------------------------------------------
IriNodes ==
    { Class(Some(IRI_A), <<TextElem("rdfs:label", AB)>>),
      Class(Some(<<"a">>), <<TextElem("rdfs:label", ABA)>>) }
IriDocuments == {Buffer(nodes) : nodes \in SeqsUpTo(IriNodes, MaxIriNodes)}

IriStrings == SeqsUpTo({SOLI_PREFIX, LMSS_PREFIX, LEGACY, BASE, "a", "/"}, MaxIriLen)

\* the draws of one call: some draws of one token, then another token
Tokens == {"a", "b"}
DrawSeqs ==
    {[k \in 1..MAX_IRI_ATTEMPTS |-> IF k <= n THEN first ELSE then] :
        n \in 0..MAX_IRI_ATTEMPTS, first \in Tokens, then \in Tokens}

InitIri == \E buffer \in IriDocuments : Constructed(buffer, TRUE, TRUE)

NormalizeIri ==
    \E iri \in IriStrings :
        /\ ret' = Call("normalize_iri", iri, Returned(normalize_iri(iri)))
        /\ UNCHANGED <<Reads, prefix_cache, filter_cache>>

GenerateIri ==
    \E draws \in DrawSeqs :
        /\ ret' = Call("generate_iri", draws, generate_iri(self, draws))
        /\ UNCHANGED <<Reads, prefix_cache, filter_cache>>

NextIri ==
    \/ NormalizeIri
    \/ GenerateIri

SpecIri == InitIri /\ [][NextIri]_vars

\* ========================================================================
\* Claims
\* ========================================================================
Entities == {classes[i] : i \in 1..Len(classes)}
Unique(s) == \A i, j \in 1..Len(s) : s[i] = s[j] => i = j

\* a token string with no legacy prefix and no path separator
BareToken(t) ==
    /\ CountSlash(t) = 0
    /\ ~StartsWith(t, <<SOLI_PREFIX>>)
    /\ ~StartsWith(t, <<LMSS_PREFIX>>)

\* C1: every stored entity E is what soli[E.iri] returns, and when E.iri is
\* the base URL followed by a bare token t, soli[t], soli["soli:" + t],
\* soli["lmss:" + t] and soli["http://lmss.sali.org/" + t] return E too.
C1_LookupRoundTrip ==
    \A E \in Entities :
        /\ getitem_str(self, E.iri) = Some(E)
        /\ (StartsWith(E.iri, <<BASE>>) /\ BareToken(Tail(E.iri))) =>
               \A form \in {Tail(E.iri), <<SOLI_PREFIX>> \o Tail(E.iri),
                            <<LMSS_PREFIX>> \o Tail(E.iri), <<LEGACY>> \o Tail(E.iri)} :
                   getitem_str(self, form) = Some(E)

\* C2: no two entities of classes have the same iri, iri_to_index maps the
\* iri of the entity at every position to that position, and it has as many
\* keys as classes has entities.
C2_IriUniqueAndIndexed ==
    /\ Unique([i \in 1..Len(classes) |-> classes[i].iri])
    /\ \A i \in 1..Len(classes) :
           /\ DictHas(iri_to_index, classes[i].iri)
           /\ DictGet(iri_to_index, classes[i].iri, 0 - 1) = i - 1
    /\ Len(iri_to_index) = Len(classes)

\* C3: if B.sub_class_of contains A.iri and A.iri is not owl:Thing, then
\* A.parent_class_of contains B.iri, for all entities A and B of the snapshot.
C3_ParentChildInverse ==
    \A A \in Entities, B \in Entities :
        (A.iri \in SeqToSet(B.sub_class_of) /\ A.iri # OWL_THING)
            => B.iri \in SeqToSet(A.parent_class_of)

\* C4: after a refresh() that succeeded, search_by_prefix(p) returns what a
\* first query of p on the new snapshot computes, for every p, also one
\* queried before the refresh.
C4_PrefixFreshAfterRefresh ==
    (phase = "refreshed" /\ ret.op = "search_by_prefix")
        => ret.val \in {PrefixSearch(self, unsorted).classes :
                           unsorted \in PrefixKeyLists(self, ret.arg, marisa_trie)}

\* C5: a refresh() that fails (the fetch raises, or the text is not XML)
\* leaves classes, iri_to_index, the label indices, title, description and
\* the frozen triples as they were before the call.
C5_FailedRefreshKeepsSnapshot ==
    [][(refreshes' = refreshes + 1 /\ ret'.raised # "")
          => UNCHANGED <<classes, iri_to_index, label_to_index, alt_label_to_index,
                         title, description, cached_triples>>]_vars

\* the entities a sub_class_of path of at most n hops reaches from the start
ResolvedParents(g, c) ==
    {Val(getitem_str(g, p)) : p \in {q \in SeqToSet(c.sub_class_of) : contains(g, q)}}

RECURSIVE Hops(_, _, _)
Hops(g, reached, n) ==
    IF n <= 0 THEN reached
    ELSE Hops(g, reached \cup UNION {ResolvedParents(g, c) : c \in reached}, n - 1)

WithinHops(g, iri, n) ==
    IF n < 0 \/ ~contains(g, iri) THEN {}
    ELSE Hops(g, {Val(getitem_str(g, iri))}, n)

\* C6: for every graph (cyclic ones too), every IRI and every integer N,
\* get_parents(iri, N) terminates and returns only entities that a
\* sub_class_of path of at most N hops reaches from the start entity.
C6_ParentsTerminateWithinDepth ==
    ret.op = "get_parents"
        => /\ ret.raised = ""
           /\ \A k \in 1..Len(ret.val) :
                  ret.val[k] \in WithinHops(self, ret.arg[1], ret.arg[2])

\* C7 as claimed: soli[i] never raises, is classes[i] when 0 <= i < len(classes)
\* and None for every other i, the negative ones included.
C7_PositionOutsideRangeIsNone ==
    ret.op = "getitem_int"
        => /\ ret.raised = ""
           /\ ret.val = IF ret.arg >= 0 /\ ret.arg < Len(classes)
                        THEN Some(classes[ret.arg + 1]) ELSE None

\* C7 as amended: soli[i] never raises; it is classes[i] when
\* 0 <= i < len(classes), classes[len(classes) + i] when -len(classes) <= i < 0
\* (a negative position counts from the end), and None for every other i.
C7_PositionLookupCountsFromEnd ==
    ret.op = "getitem_int"
        => /\ ret.raised = ""
           /\ ret.val = CASE ret.arg >= 0 /\ ret.arg < Len(classes) ->
                               Some(classes[ret.arg + 1])
                          [] ret.arg < 0 /\ ret.arg >= 0 - Len(classes) ->
                               Some(classes[Len(classes) + ret.arg + 1])
                          [] OTHER -> None

\* a negative position answered with the entity counted from the end
C7_Witness ==
    /\ ret.op = "getitem_int"
    /\ ret.arg = 0 - 1
    /\ Len(classes) = 2
    /\ ret.val = Some(classes[2])

\* C8: search_by_label(query, limit=L) returns at most L pairs and no two
\* of them hold entities with the same iri.
C8_LabelSearchLimitAndUnique ==
    (ret.op = "search_by_label" /\ ret.raised = "")
        => /\ Len(ret.val) <= ret.arg[2]
           /\ Unique([k \in 1..Len(ret.val) |-> ret.val[k][1].iri])

DeclaresThing(buffer) ==
    \E k \in 1..Len(buffer.nodes) :
        /\ buffer.nodes[k].tag = "owl:Class"
        /\ buffer.nodes[k].about = Some(OWL_THING)

\* C9 as claimed: owl:Thing is never the iri of an entity of classes nor a
\* key of iri_to_index, whatever the document declares, and never the
\* target of a parent_class_of or class_edges edge.
C9_ThingNeverStored ==
    /\ \A E \in Entities : E.iri # OWL_THING
    /\ ~DictHas(iri_to_index, OWL_THING)
    /\ ~DictHas(class_edges, OWL_THING)
    /\ \A E \in Entities : E.iri = OWL_THING => E.parent_class_of = <<>>

\* C9 as amended: owl:Thing is the iri of an entity of classes and a key of
\* iri_to_index exactly when the parsed document declares an owl:Class with
\* that rdf:about (a label is not needed); it is never a key of class_edges,
\* and every parent_class_of entry comes from a sub_class_of entry that is
\* not equal to owl:Thing and resolves to the entity that holds it.
C9_ThingStoredOnlyWhenDeclared ==
    /\ (\E E \in Entities : E.iri = OWL_THING) <=> DeclaresThing(remote)
    /\ DictHas(iri_to_index, OWL_THING) <=> DeclaresThing(remote)
    /\ ~DictHas(class_edges, OWL_THING)
    /\ \A k \in 1..Len(classes) :
           \A c \in SeqToSet(classes[k].parent_class_of) :
               \E B \in Entities :
                   /\ B.iri = c
                   /\ \E p \in SeqToSet(B.sub_class_of) :
                          /\ p # OWL_THING
                          /\ contains(self, p)
                          /\ DictGet(iri_to_index, normalize_iri(p), 0 - 1) = k - 1

\* owl:Thing is stored without a label, and a class that names it as its
\* parent has left no edge
C9_Witness ==
    /\ \E E \in Entities : E.iri = OWL_THING /\ IsNone(E.label) /\ E.parent_class_of = <<>>
    /\ \E B \in Entities : OWL_THING \in SeqToSet(B.sub_class_of)

\* the label and the alternative labels of an entity, as strings
LabelStrings(c) ==
    (IF Truthy(c.label) THEN {Val(c.label)} ELSE {})
    \cup {Val(a) : a \in {b \in SeqToSet(c.alternative_labels) : Truthy(b)}}

MatchLengths(c, prefix) == {Len(x) : x \in {y \in LabelStrings(c) : StartsWith(y, prefix)}}
Least(S) == CHOOSE n \in S : \A m \in S : n <= m

\* each entity can be given one of its strings that start with the prefix
\* so that the lengths never decrease along the sequence
RECURSIVE Ascending(_, _, _)
Ascending(found, prefix, floor) ==
    IF found = <<>> THEN TRUE
    ELSE LET fits == {n \in MatchLengths(Head(found), prefix) : n >= floor}
         IN  /\ fits # {}
             /\ Ascending(Tail(found), prefix, Least(fits))

NonIncreasing(pairs) == \A k \in 1..Len(pairs) - 1 : pairs[k][2] >= pairs[k + 1][2]

\* C11: when rapidfuzz is present, search_by_definition(q, limit=L) returns
\* a list (also on a snapshot where no entity has a definition) of at most L
\* pairs, every returned entity has a definition, and the scores never
\* increase along the list.
C11_DefinitionSearchReturnsList ==
    (ret.op = "search_by_definition" /\ rapidfuzz)
        => /\ ret.raised = ""
           /\ Len(ret.val) <= ret.arg[1]
           /\ \A k \in 1..Len(ret.val) : ~IsNone(ret.val[k][1].definition)
           /\ NonIncreasing(ret.val)

\* C12: the pairs search_by_label returns are in non-increasing score
\* order; of two pairs with the same score, the one contributed by the
\* shorter string comes first; so no pair with the highest score has a pair
\* with a lower score before it.
C12_LabelSearchOrder ==
    (ret.op = "search_by_label" /\ ret.raised = "")
        => /\ NonIncreasing(ret.val)
           /\ Len(ret.matched) = Len(ret.val)
           /\ \A k \in 1..Len(ret.val) : ret.matched[k] \in LabelStrings(ret.val[k][1])
           /\ \A k, l \in 1..Len(ret.val) :
                  (k < l /\ ret.val[k][2] = ret.val[l][2])
                      => Len(ret.matched[k]) <= Len(ret.matched[l])
           /\ \A k, l \in 1..Len(ret.val) :
                  (k < l /\ \A m \in 1..Len(ret.val) : ret.val[l][2] >= ret.val[m][2])
                      => ret.val[k][2] >= ret.val[l][2]

\* two strings of equal score: the longer one came first in the index and
\* its entity comes second in the result
C12_Witness ==
    /\ ret.op = "search_by_label"
    /\ ret.raised = ""
    /\ Len(ret.val) = 2
    /\ ret.val[1][2] = ret.val[2][2]
    /\ ret.matched = <<AB, ABA>>
    /\ DictKeys(label_to_index) = <<ABA, AB>>

TripleOps == {"get_triples_by_subject", "get_triples_by_predicate", "get_triples_by_object"}

\* the triples of ts whose element at the position the getter names is v
Matching(ts, op, v) ==
    LET at == CASE op = "get_triples_by_subject" -> 1
                [] op = "get_triples_by_predicate" -> 2
                [] op = "get_triples_by_object" -> 3
        Test(t) == t[at] = v
    IN  SelectSeq(ts, Test)

\* C13: get_triples_by_subject(v), get_triples_by_predicate(v) and
\* get_triples_by_object(v) return exactly the triples of the frozen sequence
\* whose first, second or third element is v, once per occurrence and in
\* parse order.
C13_TripleQueriesFilterFrozen ==
    ret.op \in TripleOps
        => /\ ret.raised = ""
           /\ ret.val = Matching(cached_triples, ret.op, ret.arg)

\* a query that selected some triples of the frozen sequence and left others
C13_Witness ==
    /\ ret.op \in TripleOps
    /\ ret.val # <<>>
    /\ Len(ret.val) < Len(cached_triples)

\* the triples the most recent completed parse emitted
ParsedTriples == ParseNodes(NewInstance, parsed.nodes).triples

\* C14: after construction, refresh() calls, triple queries and appends to
\* the public triples list, in any order, the frozen sequence is the one
\* the most recent completed parse emitted and every triple query returns
\* its filter, never a result memoized for another snapshot.
C14_TripleQueriesFollowLastParse ==
    /\ cached_triples = ParsedTriples
    /\ ret.op \in TripleOps => ret.val = Matching(ParsedTriples, ret.op, ret.arg)

\* the child elements parse_owl_class has a branch for
RecognizedTags ==
    {"rdfs:label", "rdfs:subClassOf", "rdfs:isDefinedBy", "rdfs:seeAlso", "rdfs:comment",
     "owl:deprecated", "skos:prefLabel", "skos:altLabel", "skos:hiddenLabel",
     "skos:definition", "skos:example", "skos:note", "skos:historyNote",
     "skos:editorialNote", "skos:inScheme", "dc:identifier", "dc:description",
     "dc:source", "v1:country"}
ResourceTags == {"rdfs:subClassOf", "rdfs:isDefinedBy", "rdfs:seeAlso"}

RecognizedChild(child) ==
    child.tag \in RecognizedTags /\ child.tag # "skos:prefLabel"
ChildWithTriple(child) ==
    /\ RecognizedChild(child)
    /\ child.tag \in ResourceTags => Truthy(child.resource)

\* <<subject, predicate>> of the triples the claim expects of the document:
\* for every owl:Class node with rdf:about, one per recognized child other
\* than skos:prefLabel (with_value: and that carries what its triple needs),
\* in document order
RECURSIVE ExpectedPairs(_, _)
ExpectedPairs(nodes, with_value) ==
    IF nodes = <<>> THEN <<>>
    ELSE LET node == Head(nodes)
             Emits(child) == IF with_value THEN ChildWithTriple(child)
                             ELSE RecognizedChild(child)
             children == SelectSeq(node.children, Emits)
         IN  (IF node.tag = "owl:Class" /\ ~IsNone(node.about)
              THEN [k \in 1..Len(children) |-> <<Val(node.about), children[k].tag>>]
              ELSE <<>>)
             \o ExpectedPairs(Tail(nodes), with_value)

EmittedPairs == [k \in 1..Len(cached_triples) |-> <<cached_triples[k][1], cached_triples[k][2]>>]
WithSubject(pairs, subject) ==
    LET Test(pair) == pair[1] = subject IN SelectSeq(pairs, Test)

C15_ChildrenAreDirect ==
    (ret.op = "get_children" /\ ret.arg[2] = 1 /\ contains(self, ret.arg[1]))
        => /\ ret.raised = ""
           /\ \A k \in 1..Len(ret.val) :
                  /\ Some(ret.val[k]) # getitem_str(self, ret.arg[1])
                  /\ \E p \in SeqToSet(ret.val[k].sub_class_of) :
                         /\ contains(self, p)
                         /\ getitem_str(self, p) = getitem_str(self, ret.arg[1])

\* the instance a construction from the text parsed last would hold
FreshSnapshot == parse_owl(NewInstance, parsed, marisa_trie)

\* C16: parsing the same text twice gives the same snapshot: after a
\* refresh() that succeeded the instance holds what a construction from the
\* same text holds (so on an unchanged document what it held after
\* construction), with no entity, index entry, edge or triple left over from
\* the earlier parse.
C16_RefreshEqualsConstruction ==
    phase = "refreshed"
        => /\ classes = FreshSnapshot.classes
           /\ iri_to_index = FreshSnapshot.iri_to_index
           /\ label_to_index = FreshSnapshot.label_to_index
           /\ alt_label_to_index = FreshSnapshot.alt_label_to_index
           /\ class_edges = FreshSnapshot.class_edges
           /\ cached_triples = FreshSnapshot.cached_triples
           /\ triples = FreshSnapshot.triples
           /\ title = FreshSnapshot.title
           /\ description = FreshSnapshot.description
           /\ label_trie = FreshSnapshot.label_trie

\* a refresh on an unchanged document with classes, an edge and triples
C16_Witness ==
    /\ phase = "refreshed"
    /\ publishes = 0
    /\ Len(classes) = 2
    /\ class_edges # <<>>
    /\ cached_triples # <<>>

\* C17: every entity of classes has a label or has the owl:Thing IRI.
C17_StoredEntitiesValid ==
    \A E \in Entities : ~IsNone(E.label) \/ E.iri = OWL_THING

\* owl:Thing is stored without a label while a class of another IRI that
\* has no label is not
C17_Witness ==
    /\ Len(classes) = 1
    /\ classes[1].iri = OWL_THING
    /\ IsNone(classes[1].label)
    /\ \E k \in 1..Len(parsed.nodes) :
          /\ parsed.nodes[k].tag = "owl:Class"
          /\ parsed.nodes[k].about = Some(IRI_B)

\* an owl:Class node without rdf:about, or with rdf:about other than
\* owl:Thing and without rdfs:label
SkippedNode(node) ==
    /\ node.tag = "owl:Class"
    /\ \/ IsNone(node.about)
       \/ /\ Val(node.about) # OWL_THING
          /\ \A c \in SeqToSet(node.children) : c.tag # "rdfs:label"

Without(nodes, k) == SubSeq(nodes, 1, k - 1) \o SubSeq(nodes, k + 1, Len(nodes))

\* C18: an owl:Class node without rdf:about, or without rdfs:label (and not
\* owl:Thing), raises nothing and leaves classes, iri_to_index,
\* label_to_index and alt_label_to_index as the parse of the document
\* without that node leaves them.
C18_SkippedNodeLeavesNoTrace ==
    /\ ret.op = "init" => ret.raised = ""
    /\ phase # "refresh_failed" =>
          \A k \in 1..Len(parsed.nodes) :
              SkippedNode(parsed.nodes[k]) =>
                  LET g == parse_owl(NewInstance, Buffer(Without(parsed.nodes, k)),
                                     marisa_trie)
                  IN  /\ classes = g.classes
                      /\ iri_to_index = g.iri_to_index
                      /\ label_to_index = g.label_to_index
                      /\ alt_label_to_index = g.alt_label_to_index

\* a class without a label that names a parent came before that parent:
\* one entity is stored, at position 0, and it has no child
C18_Witness ==
    /\ Len(parsed.nodes) = 2
    /\ SkippedNode(parsed.nodes[1])
    /\ parsed.nodes[1].about = Some(IRI_B)
    /\ Len(classes) = 1
    /\ classes[1].iri = IRI_A
    /\ classes[1].parent_class_of = <<>>
    /\ iri_to_index = <<[k |-> IRI_A, v |-> 0]>>

\* C20: without rapidfuzz, search_by_label and search_by_definition raise
\* the search-unavailable RuntimeError on every call and return no list,
\* while search_by_prefix, the lookups, the traversals and the triple
\* queries do not raise it and return what they return with rapidfuzz.
C20_SearchUnavailableOnlyForFuzzy ==
    ~rapidfuzz
        => /\ ret.op \in {"search_by_label", "search_by_definition"}
                 => ret.raised = "RuntimeError"
           /\ ret.op \notin {"search_by_label", "search_by_definition"}
                 => ret.raised # "RuntimeError"
           /\ ret.op = "search_by_prefix"
                 => \A k \in 1..Len(ret.val) : MatchLengths(ret.val[k], ret.arg) # {}
           /\ (ret.op = "search_by_prefix" /\ ~ret.hit)
                 => ret.val \in {PrefixSearch(self, unsorted).classes :
                                    unsorted \in PrefixKeyLists(self, ret.arg, marisa_trie)}
           /\ ret.op = "getitem_str"
                 => ret.val = IF contains(self, ret.arg)
                              THEN Some(classes[DictGet(iri_to_index,
                                                        normalize_iri(ret.arg), 0) + 1])
                              ELSE None
           /\ ret.op \in TripleOps => ret.val = Matching(cached_triples, ret.op, ret.arg)

\* without rapidfuzz a fuzzy search has raised, after a prefix search and a
\* triple query of the same instance returned entities and triples
C20_Witness ==
    /\ ~rapidfuzz
    /\ ret.op = "search_by_definition"
    /\ ret.raised = "RuntimeError"
    /\ \E i \in 1..Len(prefix_cache) : prefix_cache[i].v # <<>>
    /\ \E entry \in filter_cache : entry.v # <<>>


\* the (class position, parent position) pairs of the declared parents
Declarations ==
    UNION {{<<i, j>> : j \in 1..Len(classes[i].sub_class_of)} : i \in 1..Len(classes)}
DeclaredParent(d) == classes[d[1]].sub_class_of[d[2]]

\* a declared parent that is not owl:Thing and resolves to no entity
Dangling(d) == DeclaredParent(d) # OWL_THING /\ ~contains(self, DeclaredParent(d))

\* the declarations that resolve to the entity at position k (from 1) and
\* whose class has the iri child_iri
ResolvedTo(k, child_iri) ==
    {d \in Declarations :
        /\ classes[d[1]].iri = child_iri
        /\ DeclaredParent(d) # OWL_THING
        /\ contains(self, DeclaredParent(d))
        /\ DictGet(iri_to_index, normalize_iri(DeclaredParent(d)), 0) + 1 = k}

Occurrences(s, x) == Cardinality({i \in 1..Len(s) : s[i] = x})

\* every parent_class_of list holds a child once per declaration that
\* resolves to its entity: a declaration that resolves to nothing adds none
NoReverseEdgeForDangling ==
    \A k \in 1..Len(classes), i \in 1..Len(classes) :
        Occurrences(classes[k].parent_class_of, classes[i].iri)
            = Cardinality(ResolvedTo(k, classes[i].iri))

\* C23: when an entity declares a parent IRI that is not owl:Thing and
\* resolves to no entity, parse_owl completes without error and records no
\* edge for it: no parent_class_of list gains the child and class_edges
\* gains no entry for the absent parent.
C23_DanglingParentRecordsNoEdge ==
    /\ ret.op = "init" => ret.raised = ""
    /\ NoReverseEdgeForDangling
    /\ \A d \in Declarations : Dangling(d) => ~DictHas(class_edges, DeclaredParent(d))

\* C23 (amended): parse_owl completes without error and no parent_class_of
\* list gains the child, while class_edges does list the child under the
\* declared string of the absent parent.
C23_DanglingParentRecordsForwardEdgeOnly ==
    /\ ret.op = "init" => ret.raised = ""
    /\ NoReverseEdgeForDangling
    /\ \A d \in Declarations :
           Dangling(d) =>
               /\ DictHas(class_edges, DeclaredParent(d))
               /\ classes[d[1]].iri \in SeqToSet(DictGet(class_edges, DeclaredParent(d), <<>>))

\* two entities are stored, the second declares a parent that resolves to
\* no entity, and the first has no child
C23_Witness ==
    /\ Len(classes) = 2
    /\ \E d \in Declarations : d[1] = 2 /\ Dangling(d)
    /\ classes[1].parent_class_of = <<>>
    /\ ret.raised = ""


\* C28: every triple of the frozen sequence has as subject the iri of an
\* entity stored in classes: a class node discarded as invalid leaves no
\* triple in the log.
C28_TripleSubjectsAreStored ==
    \A k \in 1..Len(cached_triples) :
        \E E \in Entities : E.iri = cached_triples[k][1]


\* C25: the result of search_by_prefix(p) is a union: no entity appears in
\* it more than once, also when a matching string is both a label and an
\* alternative label, or when one entity owns several matching strings.
\* (Where classes holds no entity twice, equal elements of the result are
\* one entity.)
C25_PrefixResultHasNoDuplicate ==
    (ret.op = "search_by_prefix" /\ Unique(classes)) => Unique(ret.val)

\* C26: on one snapshot, search_by_prefix(p) through the trie returns the
\* entity sequence the linear scan over the keys of both indices returns,
\* for every p, label strings shorter than 3 and strings in both indices
\* included.
C26_TriePathEqualsLinearPath ==
    (ret.op = "search_by_prefix" /\ ~ret.hit /\ marisa_trie)
        => ret.val = PrefixSearch(self, LinearKeys(self, ret.arg)).classes


\* C27: normalize_iri(normalize_iri(s)) = normalize_iri(s) for every string
\* s, stacked legacy prefixes such as "soli:soli:a/b" included.
C27_NormalizeIdempotent ==
    ret.op = "normalize_iri" => normalize_iri(ret.val) = ret.val

\* C29: generate_iri returns the base URL followed by a token, and the IRI
\* it returns is not the iri of any entity of the graph; it raises
\* RuntimeError only after MAX_IRI_ATTEMPTS draws that each collided with
\* the iri of an entity.
C29_GeneratedIriIsFresh ==
    ret.op = "generate_iri"
        => /\ ret.raised = ""
                 => /\ \E t \in Tokens : ret.val = <<BASE, t>>
                    /\ \A E \in Entities : E.iri # ret.val
           /\ ret.raised # ""
                 => /\ ret.raised = "RuntimeError"
                    /\ \A k \in 1..MAX_IRI_ATTEMPTS :
                           \E E \in Entities : E.iri = <<BASE, ret.arg[k]>>


Miss(s) == ~DictHas(iri_to_index, normalize_iri(s))
Traversals == {"get_parents", "get_subgraph", "get_children"}

\* C22: for every string s whose normalized form is not a key of
\* iri_to_index, soli[s] is None, s in soli is False, and get_parents(s),
\* get_subgraph(s) and get_children(s) return the empty list and raise
\* nothing; s in soli is True exactly when soli[s] is not None.
C22_LookupMissIsNoError ==
    /\ (ret.op = "getitem_str" /\ Miss(ret.arg))
           => ret.raised = "" /\ ret.val = None
    /\ ret.op = "contains"
           => /\ ret.raised = ""
              /\ Miss(ret.arg) => ret.val = FALSE
              /\ ret.val = TRUE <=> getitem_str(self, ret.arg) # None
    /\ (ret.op \in Traversals /\ Miss(ret.arg[1]))
           => ret.raised = "" /\ ret.val = <<>>

\* get_children of an IRI that is in no index returned the empty list on a
\* graph that holds entities
C22_Witness ==
    /\ ret.op = "get_children"
    /\ Miss(ret.arg[1])
    /\ ret.val = <<>>
    /\ Len(classes) >= 2

\* the strings the walk follows from an entity
Edges(c, up) == IF up THEN c.sub_class_of ELSE c.parent_class_of
Position(s) == DictGet(iri_to_index, normalize_iri(s), 0) + 1

\* the pre-order depth-first listing from the entity at position k, n hops deep
RECURSIVE PreOrder(_, _, _)
RECURSIVE PreOrderOf(_, _, _)
PreOrder(k, n, up) ==
    <<classes[k]>> \o (IF n = 0 THEN <<>> ELSE PreOrderOf(Edges(classes[k], up), n - 1, up))
PreOrderOf(edges, n, up) ==
    IF edges = <<>> THEN <<>>
    ELSE (IF Miss(Head(edges)) THEN <<>> ELSE PreOrder(Position(Head(edges)), n, up))
         \o PreOrderOf(Tail(edges), n, up)

\* the paths of at most n hops from position k to position target: a path is
\* the sequence of the places, in the lists of declared edges, that it follows
RECURSIVE Paths(_, _, _, _)
Paths(k, target, n, up) ==
    (IF k = target THEN {<<>>} ELSE {})
    \cup (IF n = 0 THEN {}
          ELSE UNION {{<<j>> \o path : path \in Paths(Position(Edges(classes[k], up)[j]),
                                                    target, n - 1, up)} :
                         j \in {i \in 1..Len(Edges(classes[k], up)) :
                                    ~Miss(Edges(classes[k], up)[i])}})

PathsTo(k, E, n, up) ==
    UNION {{<<target>> \o path : path \in Paths(k, target, n, up)} :
              target \in {t \in 1..Len(classes) : classes[t] = E}}

InvalidSource(arg) ==
    \/ arg.source_type \notin {"github", "http"}
    \/ arg.source_type = "http" /\ IsNone(arg.http_url)

\* C21: an invalid mode argument fails with ValueError: _filter_triples
\* with filter_by outside predicate, subject, object, and load_owl,
\* load_cache and save_cache with source_type outside github, http (or
\* http with no URL); load_owl then makes no fetch and writes no cache file.
C21_InvalidModeRaisesValueError ==
    /\ (ret.op = "_filter_triples" /\ ret.arg[2] \notin {"predicate", "subject", "object"})
           => ret.raised = "ValueError" /\ ret.val = <<>>
    /\ (ret.op = "load_cache" /\ InvalidSource(ret.arg))
           => ret.raised = "ValueError"
    /\ (ret.op = "save_cache" /\ InvalidSource(ret.arg))
           => ret.raised = "ValueError" /\ ret.writes = 0
    /\ (ret.op = "load_owl" /\ InvalidSource(ret.arg))
           => /\ ret.raised = "ValueError"
              /\ ret.fetches = 0
              /\ ret.writes = 0
              /\ \A i \in 1..Len(cache_files) :
                     cache_files[i].k[1] \in {"github", "http"}
                         /\ ~IsNone(cache_files[i].k[2])

\* load_owl with a source type that is neither github nor http raised
\* ValueError with use_cache set, while the cache directory held a file
C21_Witness ==
    /\ ret.op = "load_owl"
    /\ ret.arg.source_type = "bad"
    /\ ret.arg.use_cache
    /\ ret.raised = "ValueError"
    /\ cache_files # <<>>

\* C30: after a refresh() that succeeded, the cache file of the instance's
\* source holds the text the refresh fetched, so a SOLI constructed next
\* with the same source and use_cache=True loads the snapshot of the
\* refreshed instance.
C30_RefreshUpdatesCache ==
    (ret.op = "refresh" /\ ret.raised = "")
        => /\ load_cache(cache_files, DEFAULT_SOURCE_TYPE, DEFAULT_HTTP_URL).val
                  = Some(parsed)
           /\ \A response \in {None, Some(remote)} :
                  LET loaded == load_owl(cache_files, response, DEFAULT_SOURCE_TYPE,
                                         DEFAULT_HTTP_URL, TRUE)
                  IN  loaded.raised = ""
                          => parse_owl(NewInstance, loaded.val, marisa_trie).classes
                                 = classes

====
